---- MODULE Spec2Model ----
(***************************************************************************)
(* A model of colorbuf-rs: the ColorBuf trait (src/src/lib.rs), the bitmap *)
(* codec BitmapColorBuf and the encoder to_bitmap (src/src/bitmap/mod.rs)  *)
(* and the sub-region view SubRegionColorBuf (src/src/ops/mod.rs).         *)
(*                                                                         *)
(* Numbers.  A channel value (an f32 in the code) is modelled exactly, as  *)
(* the numerator n of the rational n / (255 * Sub): n = Sub * k is the     *)
(* value k/255 and the values in between are the ones that quantisation    *)
(* has to round or truncate.  For the values k/255 the f32 computation     *)
(* ((k as f32) / 255f32 * 255f32) as u8 yields k for every byte k, so the  *)
(* exact model and the f32 code agree on them.  A u64 is modelled as a     *)
(* word of WordBits bits; the bitmap offsets of the modelled sizes stay    *)
(* far below 2^WordBits, the sums of SubRegionColorBuf are taken in the    *)
(* word, where they can overflow.                                          *)
(***************************************************************************)
EXTENDS Integers, Sequences, FiniteSets, TLC

VARIABLES
    overflow_checks, \* build profile: TRUE = overflow panics, FALSE = wraps
    bmp,             \* the BitmapColorBuf: format, rows, pixels_per_row, stride, data
    alive,           \* FALSE once the codec was moved into to_bitmap
    views,           \* stack of SubRegionColorBuf; views[k] borrows views[k-1] (or bmp)
    out,             \* the caller's output byte slice of the last to_bitmap
    out_stride,      \* the caller's stride variable (the &mut u64 out-parameter)
    origin,          \* history: the pixels of the source of the last successful to_bitmap
    data0,           \* history: the codec's bytes when it was constructed
    written,         \* history: pixel -> colour of the last successful set_pixel on it
    last,            \* history: the last call, its arguments and its result
    panicked,        \* the process panicked (index out of bounds, unwrap, overflow)
    nops,            \* number of calls so far that changed or replaced a buffer
    nenc             \* number of to_bitmap calls so far on buffers of other types

vars == <<overflow_checks, bmp, alive, views, out, out_stride, origin, data0,
          written, last, panicked, nops, nenc>>

---------------------------------------------------------------------------
(* Bounds of the model *)

MaxRows == 2
MaxCols == 2
MaxPad == 1
MaxExtra == 1
MaxOps == 2
MaxEncodes == 1
Sub == 2
WordBits == 16
MaxDepth == 2

Modulus == 2 ^ WordBits
One == 255 * Sub

Min(a, b) == IF a < b THEN a ELSE b

---------------------------------------------------------------------------
(* src/src/lib.rs: Color, ColorBufError *)

Color(r, g, b, a) == [r |-> r, g |-> g, b |-> b, a |-> a]

NoColor == Color(0, 0, 0, 0)

ColorFormat == {"RGBA", "ARGB", "RGB"}

(* The colours the callers pass: exact multiples of 1/255, values with a
   fractional part of at least one half in units of 1/255, and alpha 0. *)
Grid(k) == Sub * k
Half(k) == Sub * k + (Sub - 1)

Palette ==
    << Color(Grid(255), Grid(128), Grid(64), Grid(32)),
       Color(Half(254), Half(10), Half(0), Half(127)),
       Color(Grid(128), Grid(0), Grid(64), Grid(0)) >>

Colors == {Palette[i] : i \in DOMAIN Palette}

IsGrid(c) == c.r % Sub = 0 /\ c.g % Sub = 0 /\ c.b % Sub = 0 /\ c.a % Sub = 0

---------------------------------------------------------------------------
(* src/src/bitmap/mod.rs: conversions between bytes and channel values *)

(* `x as u8` of the f32 value q.num / q.den: truncation toward zero,
   saturating at 255; q.den = 0 is +inf (q.num > 0) or NaN (q.num = 0),
   which the cast turns into 255 and 0. *)
as_u8(q) ==
    IF q.den = 0
    THEN (IF q.num = 0 THEN 0 ELSE 255)
    ELSE Min(255, q.num \div q.den)

(* round_to_nearest instead of truncation *)
quantize_rounding(v) == Min(255, (2 * v + Sub) \div (2 * Sub))

(* (color.c * 255f32) as u8 *)
quantize(v) == as_u8([num |-> v, den |-> Sub])

(* ((color.c / color.a) * 255f32) as u8 *)
quantize_div(v, a) == as_u8([num |-> 255 * v, den |-> a])

(* (byte as f32) / 255f32 *)
byte_to_f32(b) == b * Sub

get_bpp_factor(format) ==
    CASE format = "RGBA" -> 4
      [] format = "ARGB" -> 4
      [] format = "RGB" -> 3

get_offset_packed(b, x, y) ==
    y * (get_bpp_factor(b.format) * b.pixels_per_row) + get_bpp_factor(b.format) * x

get_offset(b, x, y) == y * b.stride + get_bpp_factor(b.format) * x

Len0(d) == Cardinality(DOMAIN d)

Ok(value) == [res |-> "Ok", value |-> value]
Err(e) == [res |-> e, value |-> NoColor]

in_range_inclusive(b, x, y) == ~(x > b.pixels_per_row \/ y > b.rows)

in_range(b, x, y) == ~(x >= b.pixels_per_row \/ y >= b.rows)

decode_rgba_as_argb(d, index, format) ==
    IF format = "RGB"
    THEN Color(byte_to_f32(d[index]), byte_to_f32(d[index + 1]),
               byte_to_f32(d[index + 2]), One)
    ELSE Color(byte_to_f32(d[index + 1]), byte_to_f32(d[index + 2]),
               byte_to_f32(d[index + 3]), byte_to_f32(d[index]))

(* the match of get_pixel: the bytes at index in the format's channel order *)
decode(d, index, format) ==
    CASE format = "RGBA" ->
            Color(byte_to_f32(d[index]), byte_to_f32(d[index + 1]),
                  byte_to_f32(d[index + 2]), byte_to_f32(d[index + 3]))
      [] format = "ARGB" ->
            Color(byte_to_f32(d[index + 1]), byte_to_f32(d[index + 2]),
                  byte_to_f32(d[index + 3]), byte_to_f32(d[index]))
      [] format = "RGB" ->
            Color(byte_to_f32(d[index]), byte_to_f32(d[index + 1]),
                  byte_to_f32(d[index + 2]), One)

(* the indices an access at index touches: bpp consecutive bytes *)
touched(index, format) == index .. (index + get_bpp_factor(format) - 1)

BitmapColorBuf_get_pixel(b, x, y) ==
    IF ~in_range(b, x, y)
    THEN Err("InvalidCoordinate")
    ELSE LET index == get_offset(b, x, y)
         IN  IF touched(index, b.format) \subseteq DOMAIN b.data
             THEN Ok(decode(b.data, index, b.format))
             ELSE Err("Panic")

(* the bytes set_pixel stores at index, index + 1, ... *)
encode_set_pixel(color, format) ==
    CASE format = "RGBA" ->
            <<quantize(color.r), quantize(color.g), quantize(color.b), quantize(color.a)>>
      [] format = "ARGB" ->
            <<quantize(color.a), quantize(color.r), quantize(color.g), quantize(color.b)>>
      [] format = "RGB" ->
            <<quantize_div(color.r, color.a), quantize_div(color.g, color.a),
              quantize_div(color.b, color.a)>>

encode_to_bitmap_argb(color, format) ==
    IF format = "RGB"
    THEN <<quantize(color.r), quantize(color.g), quantize(color.b)>>
    ELSE <<quantize(color.a), quantize(color.r), quantize(color.g), quantize(color.b)>>

(* the bytes to_bitmap stores at index, index + 1, ... *)
encode_to_bitmap(color, format) ==
    CASE format = "RGBA" ->
            <<quantize(color.r), quantize(color.g), quantize(color.b), quantize(color.a)>>
      [] format = "ARGB" ->
            <<quantize(color.a), quantize(color.r), quantize(color.g), quantize(color.b)>>
      [] format = "RGB" ->
            <<quantize(color.r), quantize(color.g), quantize(color.b)>>

(* d[index] = bytes[1]; d[index + 1] = bytes[2]; ...  Each store is bounds
   checked: the first index outside d panics, the stores before it done. *)
store(d, index, bytes) ==
    [i \in DOMAIN d |->
        IF i >= index /\ i < index + Len(bytes) THEN bytes[i - index + 1] ELSE d[i]]

(* whether every one of these stores is inside d *)
in_bounds(d, index, bytes) == \A j \in 1..Len(bytes) : (index + j - 1) \in DOMAIN d

(* result: the Result and the codec's data afterwards *)
BitmapColorBuf_set_pixel(b, x, y, color) ==
    IF ~in_range(b, x, y)
    THEN [res |-> "InvalidCoordinate", data |-> b.data]
    ELSE [res |-> IF in_bounds(b.data, get_offset(b, x, y), encode_set_pixel(color, b.format))
                  THEN "Ok" ELSE "Panic",
          data |-> store(b.data, get_offset(b, x, y), encode_set_pixel(color, b.format))]

BitmapColorBuf_new(format, rows, pixels_per_row, stride, data) ==
    [format |-> format, rows |-> rows, pixels_per_row |-> pixels_per_row,
     stride |-> stride, data |-> data]

---------------------------------------------------------------------------
(* src/src/bitmap/mod.rs: to_bitmap *)

to_bitmap_stride_packed(width, format) == get_bpp_factor(format) * width

(* the stride out-parameter: 4 * buf.get_width() *)
to_bitmap_stride(width, format) == 4 * width

too_small_inclusive(req_bitmap_len, len) == req_bitmap_len >= len

(* req_bitmap_len > output.len() *)
too_small(req_bitmap_len, len) == req_bitmap_len > len

to_bitmap_index_four(x, y, stride, format) == y * stride + 4 * x

(* y * stride + get_bpp_factor(format, depth) * x *)
to_bitmap_index(x, y, stride, format) == y * stride + get_bpp_factor(format) * x

(* The two loops, row-major; k counts the pixels done.  px[<<x, y>>] is what
   buf.get_pixel(x, y) returns; unwrap() panics on an Err. *)
RECURSIVE to_bitmap_loop(_, _, _, _, _, _, _)
to_bitmap_loop(k, px, w, h, format, stride, output) ==
    IF k >= w * h
    THEN [res |-> "Ok", out |-> output]
    ELSE LET x == k % w
             y == k \div w
             index == to_bitmap_index(x, y, stride, format)
             bytes == encode_to_bitmap(px[<<x, y>>].value, format)
         IN  IF px[<<x, y>>].res # "Ok"
             THEN [res |-> "Panic", out |-> output]
             ELSE IF ~in_bounds(output, index, bytes)
             THEN [res |-> "Panic", out |-> store(output, index, bytes)]
             ELSE to_bitmap_loop(k + 1, px, w, h, format, stride,
                                 store(output, index, bytes))

(* result: the Result, the output bytes and the stride out-parameter *)
to_bitmap(px, w, h, format, output) ==
    LET stride == to_bitmap_stride(w, format)
        req_bitmap_len == h * stride
    IN  IF too_small(req_bitmap_len, Len0(output))
        THEN [res |-> "ByteArrayTooSmall", out |-> output, stride |-> stride]
        ELSE [stride |-> stride] @@ to_bitmap_loop(0, px, w, h, format, stride, output)

---------------------------------------------------------------------------
(* src/src/ops/mod.rs: SubRegionColorBuf *)

(* a + b on u64: the sum in the word, and whether it overflowed *)
wadd(a, b) == [v |-> (a + b) % Modulus, overflow |-> (a + b) >= Modulus]

Width(k) == IF k = 0 THEN bmp.pixels_per_row ELSE views[k].width
Height(k) == IF k = 0 THEN bmp.rows ELSE views[k].height

(* (start + size) >= backing size *)
outside(sum, size) == sum >= size

(* SubRegionColorBuf::new over a backing buffer of size bw x bh.  The || is
   short-circuit: the second sum is computed only when the first test fails. *)
SubRegionColorBuf_new(bw, bh, start_x, start_y, width, height) ==
    LET sx == wadd(start_x, width)
        sy == wadd(start_y, height)
        view == [reg_x |-> start_x, reg_y |-> start_y, width |-> width, height |-> height]
    IN  IF sx.overflow /\ overflow_checks THEN [res |-> "Panic", view |-> view]
        ELSE IF outside(sx.v, bw) THEN [res |-> "InvalidDimensions", view |-> view]
        ELSE IF sy.overflow /\ overflow_checks THEN [res |-> "Panic", view |-> view]
        ELSE IF outside(sy.v, bh) THEN [res |-> "InvalidDimensions", view |-> view]
        ELSE [res |-> "Ok", view |-> view]

view_in_range(v, x, y) == ~(x >= v.width \/ y >= v.height)

(* self.reg_x + x *)
translate(reg, c) == wadd(reg, c)

(* get_pixel of the buffer at depth k: 0 is the codec, k > 0 is views[k] *)
RECURSIVE get_pixel(_, _, _, _)
get_pixel(b, k, x, y) ==
    IF k = 0
    THEN BitmapColorBuf_get_pixel(b, x, y)
    ELSE LET v == views[k]
             bx == translate(v.reg_x, x)
             by == translate(v.reg_y, y)
         IN  IF ~view_in_range(v, x, y) THEN Err("InvalidCoordinate")
             ELSE IF (bx.overflow \/ by.overflow) /\ overflow_checks THEN Err("Panic")
             ELSE get_pixel(b, k - 1, bx.v, by.v)

RECURSIVE set_pixel(_, _, _, _, _)
set_pixel(b, k, x, y, color) ==
    IF k = 0
    THEN BitmapColorBuf_set_pixel(b, x, y, color)
    ELSE LET v == views[k]
             bx == translate(v.reg_x, x)
             by == translate(v.reg_y, y)
         IN  IF ~view_in_range(v, x, y)
             THEN [res |-> "InvalidCoordinate", data |-> b.data]
             ELSE IF (bx.overflow \/ by.overflow) /\ overflow_checks
             THEN [res |-> "Panic", data |-> b.data]
             ELSE set_pixel(b, k - 1, bx.v, by.v, color)

---------------------------------------------------------------------------
(* The program: a caller that owns one BitmapColorBuf, borrows it through a
   stack of SubRegionColorBuf views and encodes buffers with to_bitmap. *)

Call(op, depth, x, y, w, h, color, fmt, res, value, before) ==
    [op |-> op, depth |-> depth, x |-> x, y |-> y, w |-> w, h |-> h, color |-> color,
     fmt |-> fmt, res |-> res, value |-> value, before |-> before]

NoCall == Call("none", 0, 0, 0, 0, 0, NoColor, "RGBA", "none", NoColor, <<>>)

NoOrigin == [w |-> 0, h |-> 0, fmt |-> "RGBA", px |-> <<>>, bound |-> FALSE]

(* the bytes of a region handed to BitmapColorBuf::new: all different *)
Pattern(len) == [i \in 0..(len - 1) |-> (37 * i + 11) % 256]

Filled(len, fill) == [i \in 0..(len - 1) |-> fill]

Top == Len(views)

(* A region as the data model requires it: stride >= pixels_per_row * bpp
   and at least rows * stride bytes. *)
InitWith(builds, held, formats, rowss, colss, pads, extras) ==
    /\ overflow_checks \in builds
    /\ \E format \in formats, rows \in rowss, cols \in colss, pad \in pads, extra \in extras :
          LET stride == cols * get_bpp_factor(format) + pad
              data == Pattern(rows * stride + extra)
          IN  /\ bmp = BitmapColorBuf_new(format, rows, cols, stride, data)
              /\ data0 = data
    /\ alive = held
    /\ views = <<>>
    /\ out = <<>>
    /\ out_stride = 0
    /\ origin = NoOrigin
    /\ written = <<>>
    /\ last = NoCall
    /\ panicked = FALSE
    /\ nops = 0
    /\ nenc = 0

(* The codec's arithmetic does not overflow at the modelled sizes, so the
   build profile is left at the default of cargo build and cargo test. *)
Init == InitWith({TRUE}, TRUE, ColorFormat, {MaxRows}, {MaxCols}, 0..MaxPad, 0..MaxExtra)

Coords == 0..MaxCols

(* buf.get_pixel(x, y) on the buffer the caller can use: the top of the stack *)
GetPixel(x, y) ==
    /\ ~panicked /\ alive
    /\ \E r \in {get_pixel(bmp, Top, x, y)} :
           /\ last' = Call("get_pixel", Top, x, y, 0, 0, NoColor, bmp.format, r.res,
                           r.value, bmp.data)
           /\ panicked' = (r.res = "Panic")
    /\ UNCHANGED <<overflow_checks, bmp, alive, views, out, out_stride, origin, data0,
                   written, nops, nenc>>

(* buf.set_pixel(x, y, &color) on the top of the stack *)
SetPixel(x, y, color) ==
    /\ ~panicked /\ alive
    /\ \E r \in {set_pixel(bmp, Top, x, y, color)} :
           /\ r.res = "Ok" => nops < MaxOps
           /\ bmp' = [bmp EXCEPT !.data = r.data]
           /\ last' = Call("set_pixel", Top, x, y, 0, 0, color, bmp.format, r.res,
                           NoColor, bmp.data)
           /\ panicked' = (r.res = "Panic")
           /\ written' = IF r.res = "Ok" /\ Top = 0
                         THEN (<<x, y>> :> color) @@ written
                         ELSE written
           /\ origin' = IF r.res = "InvalidCoordinate" THEN origin ELSE NoOrigin
           /\ nops' = IF r.res = "Ok" THEN nops + 1 ELSE nops
    /\ UNCHANGED <<overflow_checks, alive, views, out, out_stride, data0, nenc>>

OutLens(w, h) == {3 * w * h, 4 * w * h - 1, 4 * w * h, 4 * w * h + 1} \cap Nat

(* the caller's output slice before the call: zeroed when its length is
   even, filled with 0xAA when it is odd *)
Output(len) == Filled(len, IF len % 2 = 0 THEN 0 ELSE 170)

(* what to_bitmap's calls of buf.get_pixel return, for the top of the stack *)
SourceOfTop ==
    [p \in (0..(Width(Top) - 1)) \X (0..(Height(Top) - 1)) |->
        get_pixel(bmp, Top, p[1], p[2])]

(* any other implementation of the ColorBuf trait: w x h pixels of any colours *)
SourceOfPixels(w, h, seed) ==
    [p \in (0..(w - 1)) \X (0..(h - 1)) |->
        Ok(Palette[((p[1] + w * p[2] + seed) % Len(Palette)) + 1])]

ToBitmapEffect(px, w, h, depth, format, output) ==
    \E r \in {to_bitmap(px, w, h, format, output)} :
        /\ out' = r.out
        /\ out_stride' = r.stride
        /\ last' = Call("to_bitmap", depth, 0, 0, w, h, NoColor, format, r.res, NoColor,
                        output)
        /\ panicked' = (r.res = "Panic")
        /\ origin' = IF r.res = "Ok"
                     THEN [w |-> w, h |-> h, fmt |-> format,
                           px |-> [p \in DOMAIN px |-> px[p].value], bound |-> FALSE]
                     ELSE NoOrigin

(* to_bitmap(buf, format, BitDepth::Eight, &mut stride, &mut output) with the
   top of the stack as buf: buf is moved into the call and dropped by it. *)
ToBitmap(format, len) ==
    /\ ~panicked /\ alive
    /\ ToBitmapEffect(SourceOfTop, Width(Top), Height(Top), Top, format, Output(len))
    /\ IF Top = 0
       THEN alive' = FALSE /\ views' = views
       ELSE alive' = alive /\ views' = SubSeq(views, 1, Top - 1)
    /\ UNCHANGED <<overflow_checks, bmp, data0, written, nops, nenc>>

(* to_bitmap with a buffer of another implementation of ColorBuf as buf *)
ToBitmapPixels(w, h, seed, format, len) ==
    /\ ~panicked /\ nenc < MaxEncodes
    /\ ToBitmapEffect(SourceOfPixels(w, h, seed), w, h, -1, format, Output(len))
    /\ nenc' = nenc + 1
    /\ UNCHANGED <<overflow_checks, bmp, alive, views, data0, written, nops>>

(* BitmapColorBuf::new(format, BitDepth::Eight, height, width, stride, output)
   over the bytes, the size and the stride of the last successful to_bitmap *)
NewFromOutput ==
    /\ ~panicked /\ nops < MaxOps
    /\ views = <<>>
    /\ last.op = "to_bitmap" /\ last.res = "Ok"
    /\ bmp' = BitmapColorBuf_new(last.fmt, last.h, last.w, out_stride, out)
    /\ alive' = TRUE
    /\ data0' = out
    /\ written' = <<>>
    /\ origin' = [origin EXCEPT !.bound = TRUE]
    /\ last' = Call("new", 0, 0, 0, last.w, last.h, NoColor, last.fmt, "Ok", NoColor, out)
    /\ nops' = nops + 1
    /\ UNCHANGED <<overflow_checks, views, out, out_stride, panicked, nenc>>

(* The codec used directly and encoded with to_bitmap *)
Next ==
    \/ \E x \in Coords, y \in Coords : GetPixel(x, y)
    \/ \E x \in Coords, y \in Coords, color \in Colors : SetPixel(x, y, color)
    \/ \E format \in ColorFormat, len \in OutLens(Width(Top), Height(Top)) :
          ToBitmap(format, len)

Spec == Init /\ [][Next]_vars

(* Buffers of any implementation of ColorBuf encoded with to_bitmap and
   decoded by a codec over the output *)
NextEncode ==
    \/ \E x \in Coords, y \in Coords : GetPixel(x, y)
    \/ \E x \in Coords, y \in Coords, color \in Colors : SetPixel(x, y, color)
    \/ \E w \in 1..MaxCols, seed \in 0..1, format \in ColorFormat :
          \E len \in OutLens(w, MaxRows) : ToBitmapPixels(w, MaxRows, seed, format, len)
    \/ NewFromOutput

(* the caller holds no codec yet: the first one is built over an output *)
InitEncode == InitWith({TRUE}, FALSE, {"RGBA"}, {0}, {0}, {0}, {0})

SpecEncode == InitEncode /\ [][NextEncode]_vars

---------------------------------------------------------------------------
(* Sub-region views over the codec and over each other *)

Starts == {0, 1, Modulus - 1}
Sizes == {1, 2}

(* SubRegionColorBuf::new(&mut top, start_x, start_y, width, height): on Ok
   the new view borrows the top of the stack and becomes the top. *)
NewView(start_x, start_y, width, height) ==
    /\ ~panicked /\ alive /\ nops < MaxOps /\ Top < MaxDepth
    /\ \E r \in {SubRegionColorBuf_new(Width(Top), Height(Top), start_x, start_y,
                                       width, height)} :
           /\ views' = IF r.res = "Ok" THEN Append(views, r.view) ELSE views
           /\ last' = Call("SubRegionColorBuf::new", Top, start_x, start_y, width, height,
                           NoColor, bmp.format, r.res, NoColor, bmp.data)
           /\ panicked' = (r.res = "Panic")
           /\ nops' = IF r.res = "Ok" THEN nops + 1 ELSE nops
    /\ UNCHANGED <<overflow_checks, bmp, alive, out, out_stride, origin, data0, written,
                   nenc>>

(* the top view goes out of scope and its borrow ends *)
DropView ==
    /\ ~panicked /\ alive /\ nops < MaxOps /\ Top > 0
    /\ views' = SubSeq(views, 1, Top - 1)
    /\ last' = Call("drop", Top, 0, 0, 0, 0, NoColor, bmp.format, "Ok", NoColor, bmp.data)
    /\ nops' = nops + 1
    /\ UNCHANGED <<overflow_checks, bmp, alive, out, out_stride, origin, data0, written,
                   panicked, nenc>>

InitView ==
    InitWith(BOOLEAN, TRUE, {"RGBA", "RGB"}, {MaxRows + 1}, {MaxCols + 1}, {0}, {0})

NextView ==
    \/ \E x \in Coords, y \in Coords : GetPixel(x, y)
    \/ \E x \in Coords, y \in Coords : SetPixel(x, y, Palette[1])
    \/ \E start_x \in Starts, start_y \in Starts, width \in Sizes, height \in Sizes :
          NewView(start_x, start_y, width, height)
    \/ DropView

SpecView == InitView /\ [][NextView]_vars

---------------------------------------------------------------------------
(* What the claims speak of *)

BytesPerPixel(format) == IF format = "RGB" THEN 3 ELSE 4

(* the region is as the data model requires it *)
WellFormed(b) ==
    /\ b.stride >= b.pixels_per_row * BytesPerPixel(b.format)
    /\ Len0(b.data) >= b.rows * b.stride

OnCodec(op) == last.op = op /\ last.depth = 0

(* the codec as it was before the last call *)
Before == [bmp EXCEPT !.data = last.before]

(* the bytes of pixel (x, y) in a region of the given stride and format *)
Slot(x, y, stride, format) ==
    (y * stride + x * BytesPerPixel(format)) ..
        (y * stride + x * BytesPerPixel(format) + BytesPerPixel(format) - 1)

(* the channels of a colour in the byte order of the format *)
InOrder(c, format) ==
    CASE format = "RGBA" -> <<c.r, c.g, c.b, c.a>>
      [] format = "ARGB" -> <<c.a, c.r, c.g, c.b>>
      [] format = "RGB" -> <<c.r, c.g, c.b>>

(* floor(v * 255) and round_to_nearest(v * 255) of a channel value in [0, 1] *)
Floor255(v) == v \div Sub
Round255(v) == (2 * v + Sub) \div (2 * Sub)

Abs(n) == IF n < 0 THEN -n ELSE n

(* C1: on a well-formed region get_pixel and set_pixel return
   Err(InvalidCoordinate) whenever x >= pixels_per_row or y >= rows, a
   set_pixel that fails leaves every byte unchanged, and both return Ok,
   without a panic, whenever x < pixels_per_row and y < rows. *)
C1_Bounds ==
    ((OnCodec("get_pixel") \/ OnCodec("set_pixel")) /\ WellFormed(Before)) =>
        IF last.x >= bmp.pixels_per_row \/ last.y >= bmp.rows
        THEN last.res = "InvalidCoordinate" /\ bmp.data = last.before
        ELSE last.res = "Ok" /\ ~panicked

C1_Witness ==
    /\ OnCodec("set_pixel") /\ WellFormed(Before)
    /\ last.x = bmp.pixels_per_row /\ last.y < bmp.rows
    /\ last.res = "InvalidCoordinate"

(* C8: an in-range get_pixel on the codec returns the bytes at
   y * stride + x * bytes_per_pixel as byte / 255 in the order of the
   format (RGBA: R,G,B,A; ARGB: A,R,G,B; RGB: R,G,B and alpha exactly 1.0),
   reads no padding byte and leaves the region unchanged. *)
C8_Decode ==
    (OnCodec("get_pixel") /\ WellFormed(bmp)
        /\ last.x < bmp.pixels_per_row /\ last.y < bmp.rows) =>
        LET off == last.y * bmp.stride + last.x * BytesPerPixel(bmp.format)
            d == bmp.data
            v == last.value
        IN  /\ last.res = "Ok"
            /\ bmp.format = "RGBA" =>
                   /\ v.r * 255 = d[off] * One /\ v.g * 255 = d[off + 1] * One
                   /\ v.b * 255 = d[off + 2] * One /\ v.a * 255 = d[off + 3] * One
            /\ bmp.format = "ARGB" =>
                   /\ v.a * 255 = d[off] * One /\ v.r * 255 = d[off + 1] * One
                   /\ v.g * 255 = d[off + 2] * One /\ v.b * 255 = d[off + 3] * One
            /\ bmp.format = "RGB" =>
                   /\ v.r * 255 = d[off] * One /\ v.g * 255 = d[off + 1] * One
                   /\ v.b * 255 = d[off + 2] * One /\ v.a = One
            /\ \A i \in touched(get_offset(bmp, last.x, last.y), bmp.format) :
                   /\ i \div bmp.stride = last.y
                   /\ i % bmp.stride < bmp.pixels_per_row * BytesPerPixel(bmp.format)
            /\ bmp.data = last.before

C8_Witness ==
    /\ OnCodec("get_pixel") /\ WellFormed(bmp) /\ last.res = "Ok"
    /\ bmp.format = "ARGB" /\ last.x > 0 /\ last.y > 0
    /\ bmp.stride > bmp.pixels_per_row * BytesPerPixel(bmp.format)

(* the bytes of the region that belong to no pixel *)
IsPadding(b, i) ==
    \/ i >= b.rows * b.stride
    \/ i % b.stride >= b.pixels_per_row * BytesPerPixel(b.format)

(* C9: whatever set_pixel calls were made, every padding byte keeps its
   initial value; a successful set_pixel(x, y) changes only the bytes
   [y*stride + x*bpp, y*stride + x*bpp + bpp); the byte ranges of distinct
   pixels are disjoint; a successful to_bitmap writes only inside the
   bpp-byte slots of the in-range pixels of the output. *)
C9_Padding ==
    /\ (alive /\ WellFormed(bmp)) =>
          /\ \A i \in DOMAIN bmp.data : IsPadding(bmp, i) => bmp.data[i] = data0[i]
          /\ \A x1 \in 0..(bmp.pixels_per_row - 1), y1 \in 0..(bmp.rows - 1),
                x2 \in 0..(bmp.pixels_per_row - 1), y2 \in 0..(bmp.rows - 1) :
                <<x1, y1>> # <<x2, y2>> =>
                    touched(get_offset(bmp, x1, y1), bmp.format)
                        \cap touched(get_offset(bmp, x2, y2), bmp.format) = {}
    /\ (OnCodec("set_pixel") /\ WellFormed(bmp) /\ last.res = "Ok") =>
          \A i \in DOMAIN bmp.data :
              i \notin Slot(last.x, last.y, bmp.stride, bmp.format) =>
                  bmp.data[i] = last.before[i]
    /\ (OnCodec("set_pixel") /\ last.res # "Ok") => bmp.data = last.before
    /\ (last.op = "to_bitmap" /\ last.res = "Ok") =>
          \A i \in DOMAIN out :
              (\A x \in 0..(last.w - 1), y \in 0..(last.h - 1) :
                  i \notin Slot(x, y, out_stride, last.fmt)) =>
                  out[i] = last.before[i]

C9_Witness ==
    /\ OnCodec("set_pixel") /\ WellFormed(bmp) /\ last.res = "Ok"
    /\ bmp.stride > bmp.pixels_per_row * BytesPerPixel(bmp.format)
    /\ last.y > 0 /\ last.x > 0
    /\ bmp.data # last.before
    /\ nops = MaxOps

(* C3: to_bitmap returns Err(ByteArrayTooSmall) exactly when output.len()
   is less than height * stride, stride being the value it reports, and
   then no byte of output is modified; otherwise it returns Ok and writes
   no index outside output. *)
C3_TooSmall ==
    last.op = "to_bitmap" =>
        /\ last.res = "ByteArrayTooSmall" <=> Len0(last.before) < last.h * out_stride
        /\ last.res = "ByteArrayTooSmall" => out = last.before
        /\ Len0(last.before) >= last.h * out_stride => (last.res = "Ok" /\ ~panicked)
        /\ DOMAIN out = DOMAIN last.before

C3_Witness ==
    /\ last.op = "to_bitmap" /\ last.res = "ByteArrayTooSmall"
    /\ Len0(last.before) = last.h * out_stride - 1
    /\ last.h > 1 /\ \E i \in DOMAIN out : out[i] # 0

(* the region the codec was built over with the written pixels replaced *)
Expected ==
    [i \in DOMAIN data0 |->
        IF \E p \in DOMAIN written : i \in Slot(p[1], p[2], 4 * bmp.pixels_per_row, "RGBA")
        THEN LET p == CHOOSE q \in DOMAIN written :
                          i \in Slot(q[1], q[2], 4 * bmp.pixels_per_row, "RGBA")
                 j == i - (p[2] * 4 * bmp.pixels_per_row + 4 * p[1])
             IN  InOrder(written[p], "RGBA")[j + 1] \div Sub
        ELSE data0[i]]

C5_Premise ==
    /\ OnCodec("to_bitmap") /\ last.fmt = "RGBA" /\ bmp.format = "RGBA"
    /\ bmp.stride = 4 * bmp.pixels_per_row
    /\ Len0(bmp.data) = bmp.rows * bmp.stride
    /\ Len0(last.before) = Len0(bmp.data)
    /\ \A i \in DOMAIN last.before : last.before[i] = 0
    /\ \A p \in DOMAIN written : IsGrid(written[p])

(* C5: an RGBA codec with stride 4 * pixels_per_row over exactly
   rows * stride bytes, after any in-range set_pixel calls with channel
   values k/255, is encoded by to_bitmap(codec, RGBA) into a zeroed buffer
   of the same length successfully, with stride 4 * pixels_per_row, as
   bytes identical to the codec's region: the original bytes with the 4
   bytes of each written pixel replaced by its R,G,B,A bytes. *)
C5_RoundTrip ==
    C5_Premise =>
        /\ last.res = "Ok"
        /\ out_stride = 4 * bmp.pixels_per_row
        /\ out = bmp.data
        /\ bmp.data = Expected

C5_Witness ==
    /\ C5_Premise /\ last.res = "Ok"
    /\ Cardinality(DOMAIN written) = MaxOps
    /\ bmp.rows > 1

(* C2 as claimed: to_bitmap sets the stride out-parameter to
   bytes_per_pixel(layout) * width: 4 * width for RGBA and ARGB, 3 * width
   for RGB, without row padding. *)
C2_Claim ==
    last.op = "to_bitmap" => out_stride = BytesPerPixel(last.fmt) * last.w

(* the bytes to_bitmap has to leave at pixel (x, y) of the output *)
Encoded(x, y) ==
    [j \in 1..BytesPerPixel(origin.fmt) |-> Floor255(InOrder(origin.px[<<x, y>>], origin.fmt)[j])]

(* C2 as amended: to_bitmap sets the stride out-parameter to 4 * width for
   every layout (an RGB row therefore ends in width bytes of padding), and
   that same stride decides the required length and places the pixels: the
   bytes of pixel (x, y) are at y * stride + x * bytes_per_pixel(layout). *)
C2_Stride ==
    last.op = "to_bitmap" =>
        /\ out_stride = 4 * last.w
        /\ last.res = "ByteArrayTooSmall" <=> Len0(last.before) < last.h * out_stride
        /\ last.res = "Ok" =>
              \A x \in 0..(last.w - 1), y \in 0..(last.h - 1) :
                  \A j \in 1..BytesPerPixel(last.fmt) :
                      out[y * out_stride + x * BytesPerPixel(last.fmt) + j - 1] = Encoded(x, y)[j]

C2_Witness ==
    /\ last.op = "to_bitmap" /\ last.res = "Ok" /\ last.fmt = "RGB"
    /\ last.w > 1 /\ last.h > 1
    /\ out_stride # BytesPerPixel(last.fmt) * last.w

Close(a, b) == Abs(a - b) <= Sub

(* C4: after a successful to_bitmap(buffer, L), a codec over the output with
   the same L, rows = height, pixels_per_row = width and the reported
   stride returns for every (x, y) in range a colour whose r, g, b (and a
   for RGBA and ARGB) differ from the source pixel's by at most 1/255, and
   whose alpha is exactly 1.0 for RGB. *)
C4_RoundTrip ==
    origin.bound =>
        \A x \in 0..(origin.w - 1), y \in 0..(origin.h - 1) :
            LET got == BitmapColorBuf_get_pixel(bmp, x, y)
                src == origin.px[<<x, y>>]
            IN  /\ got.res = "Ok"
                /\ Close(got.value.r, src.r)
                /\ Close(got.value.g, src.g)
                /\ Close(got.value.b, src.b)
                /\ origin.fmt # "RGB" => Close(got.value.a, src.a)
                /\ origin.fmt = "RGB" => got.value.a = One

C4_Witness ==
    /\ origin.bound /\ origin.fmt = "RGB" /\ origin.w > 1 /\ origin.h > 1
    /\ OnCodec("get_pixel") /\ last.res = "Ok" /\ last.x > 0 /\ last.y > 0
    /\ origin.px[<<last.x, last.y>>].a # One
    /\ last.value.r # origin.px[<<last.x, last.y>>].r

(* the bytes of pixel (x, y) of a region are the channels of colour c in
   the order of the format, each rounded to the nearest byte or truncated *)
Stored(d, x, y, stride, format, c, rounding) ==
    \A j \in 1..BytesPerPixel(format) :
        d[y * stride + x * BytesPerPixel(format) + j - 1] =
            IF rounding THEN Round255(InOrder(c, format)[j])
                        ELSE Floor255(InOrder(c, format)[j])

Quantized(Q) ==
    /\ (OnCodec("set_pixel") /\ last.res = "Ok" /\ bmp.format # "RGB") =>
          Stored(bmp.data, last.x, last.y, bmp.stride, bmp.format, last.color, Q)
    /\ (last.op = "to_bitmap" /\ last.res = "Ok") =>
          \A x \in 0..(last.w - 1), y \in 0..(last.h - 1) :
              Stored(out, x, y, out_stride, last.fmt, origin.px[<<x, y>>], Q)

(* C10 as claimed: set_pixel and to_bitmap store round_to_nearest(v * 255)
   for every channel value v in [0, 1]. *)
C10_Claim == Quantized(TRUE)

(* C10 as amended: set_pixel on an RGBA or ARGB codec and to_bitmap for
   every layout store the truncation floor(v * 255) of every channel value
   v in [0, 1]: a value whose v * 255 has a fractional part of one half or
   more is stored as the lower byte. *)
C10_Truncates == Quantized(FALSE)

C10_Witness ==
    /\ OnCodec("set_pixel") /\ last.res = "Ok" /\ bmp.format # "RGB"
    /\ ~IsGrid(last.color)
    /\ Round255(last.color.r) # Floor255(last.color.r)

(* C6: SubRegionColorBuf::new returns Ok exactly when
   start_x + width < backing.width and start_y + height < backing.height,
   the sums taken as mathematical integers, and Err(InvalidDimensions) as a
   result value otherwise: no abort, no acceptance by wrap-around; so every
   constructed view lies strictly inside its backing buffer. *)
C6_Claim ==
    /\ last.op = "SubRegionColorBuf::new" =>
          /\ last.res \in {"Ok", "InvalidDimensions"}
          /\ last.res = "Ok" <=> (/\ last.x + last.w < Width(last.depth)
                                  /\ last.y + last.h < Height(last.depth))
    /\ \A k \in 1..Top :
          /\ views[k].reg_x + views[k].width < Width(k - 1)
          /\ views[k].reg_y + views[k].height < Height(k - 1)

(* the pixels of the buffer at depth k, as it reads them *)
PixelsOf(b, k) ==
    [p \in (0..(Width(k) - 1)) \X (0..(Height(k) - 1)) |-> get_pixel(b, k, p[1], p[2])]

(* C7: a view's get_pixel(x, y) with x < width and y < height returns the
   backing pixel at (start_x + x, start_y + y); its set_pixel(x, y, c)
   changes that backing pixel as the backing buffer's own set_pixel does,
   and no other; any x >= width or y >= height returns
   Err(InvalidCoordinate) and leaves the backing buffer untouched. *)
C7_Claim ==
    ((last.op = "get_pixel" \/ last.op = "set_pixel") /\ last.depth >= 1) =>
        LET k == last.depth
            v == views[k]
            bx == v.reg_x + last.x
            by == v.reg_y + last.y
        IN  IF last.x >= v.width \/ last.y >= v.height
            THEN last.res = "InvalidCoordinate" /\ bmp.data = last.before
            ELSE /\ last.res = "Ok"
                 /\ bx < Width(k - 1) /\ by < Height(k - 1)
                 /\ last.op = "get_pixel" =>
                        /\ last.value = get_pixel(bmp, k - 1, bx, by).value
                        /\ bmp.data = last.before
                 /\ last.op = "set_pixel" =>
                        /\ bmp.data = set_pixel(Before, k - 1, bx, by, last.color).data
                        /\ \A p \in DOMAIN PixelsOf(bmp, k - 1) :
                               p # <<bx, by>> => PixelsOf(bmp, k - 1)[p] = PixelsOf(Before, k - 1)[p]

====
